---------------------------- MODULE Spec2Model ----------------------------
(***************************************************************************)
(* A model of the SSYK / DAIOE data pipeline of this repository.          *)
(*                                                                         *)
(* The repository is a set of scripts that are run one after the other:   *)
(*   scripts/merge.py      the Identity Resolver                          *)
(*   scripts/aggregate.py  the Hierarchy Builder                          *)
(*   scripts/pipeline.py   Temporal Extender, Exposure Joiner, Weighted   *)
(*                         Aggregator and Percentile Ranker               *)
(*   scripts/main.py       the run of the pipeline: inspect and sink      *)
(*   scripts/pull.py       the worker pool that fetches the SCB tables,   *)
(*                         and the per-table update logs                  *)
(* Every script is modelled as a small state machine: the variable prog   *)
(* names the script (or the function) that is running, pc its position.   *)
(*                                                                         *)
(* Representation.  A table is a sequence of rows.  A classification code *)
(* is a sequence of digits (<<1,2,3,4>> is "1234"), so that str.slice and *)
(* str.len_chars are SubSeq and Len.  A missing value is Null.  A number  *)
(* that the code computes by a true division is an exact fraction         *)
(* <<num, den>> with den > 0, and NaN is the result of 0/0.               *)
(***************************************************************************)
EXTENDS Integers, Sequences, FiniteSets, TLC

VARIABLES
    prog, pc,
    \* ---- merge.py
    first_cols,       \* the columns of the raw extracts (read from files[0])
    files,            \* the raw extracts, newest first: a sequence of tables
    combined_lf,      \* lazy_union(files)
    merge_stats,      \* combined_rows, dup_rows, dup_groups, conflict_groups
    df_resolved,      \* the resolved table, provenance still attached
    merged_out,       \* cfg.out_file of merge.py (written at pc = "done")
    \* ---- aggregate.py
    in_cols,          \* the columns of paths.in_file
    in_file,          \* the rows of paths.in_file
    df,               \* load_ssyk4(paths)
    lf_levels,        \* lf = add_ssyk_levels(df)
    df_all,           \* aggregate_all_levels(lf)
    in_exists,        \* paths.in_file.exists()
    map_exists,       \* paths.map_file.exists()
    map_file,         \* the rows of paths.map_file
    df_name_maps,     \* load_name_map(paths)
    df_join,          \* map_occupation_names(df_all, df_name_maps)
    diag,             \* diagnostics(df_join)
    out_file,         \* the rows of paths.out_file
    \* ---- pipeline.py
    daioe_src,        \* the rows of config.daioe_source
    scb_lf,           \* the rows of config.scb_source
    daioe_lf,         \* the exposure table: [cols, rows]
    scb_lv4,          \* scb_level4_counts(scb_lf)
    daioe_scb,        \* the joined table
    descending,       \* config.descending
    daioe_all_levels, \* the table build_pipeline returns
    \* ---- extend_daioe_years_to_match_scb applied twice
    ext_once, ext_twice,
    \* ---- main.py
    collects,         \* the evaluations triggered so far, by the place that triggers
    sink_out,         \* the rows of config.out_file
    \* ---- pull.py
    cfg_max_logs,     \* cfg.max_logs
    tasks,            \* the fetch_clean_write task of every table
    results,          \* main's results mapping
    raw_dir,          \* the files of cfg.out_dir, by path
    log_dir,          \* the files of cfg.log_dir, by path
    clock,            \* datetime.now(), in ticks
    log_init          \* the log file before the first update_log call

mergeVars == <<first_cols, files, combined_lf, merge_stats, df_resolved, merged_out>>
aggFiles == <<in_exists, map_exists, map_file>>
aggMapVars == <<df_name_maps, df_join, diag, out_file>>
aggVars == <<in_cols, in_file, df, lf_levels, df_all, aggFiles, aggMapVars>>
mainVars == <<collects, sink_out>>
pipeVars == <<daioe_src, scb_lf, daioe_lf, scb_lv4, daioe_scb, descending,
              daioe_all_levels, ext_once, ext_twice, mainVars>>
pullVars == <<cfg_max_logs, tasks, results, raw_dir, log_dir, clock, log_init>>
vars == <<prog, pc, mergeVars, aggVars, pipeVars, pullVars>>
notMergeVars == <<aggVars, pipeVars, pullVars>>
notAggVars == <<mergeVars, pipeVars, pullVars>>
notPipeVars == <<mergeVars, aggVars, pullVars>>
notPullVars == <<mergeVars, aggVars, pipeVars>>

\* a missing value; a present value v of a nullable column is <<v>>
Null == <<>>
Some(v) == <<v>>

(***************************************************************************)
(* General helpers                                                         *)
(***************************************************************************)
Range(s) == {s[i] : i \in DOMAIN s}

SeqsUpTo(S, n) == UNION {[1..k -> S] : k \in 0..n}

RECURSIVE SumOver(_, _)
\* the sum of f[x] over the finite set D
SumOver(D, f) ==
    IF D = {} THEN 0
    ELSE LET x == CHOOSE y \in D : TRUE IN f[x] + SumOver(D \ {x}, f)

Min(S) == CHOOSE x \in S : \A y \in S : x <= y
Max(S) == CHOOSE x \in S : \A y \in S : x >= y

\* the rows of table t at the indices in I, in the order of their indices
RECURSIVE PickRows(_, _)
PickRows(t, I) ==
    IF I = {} THEN <<>>
    ELSE LET i == Min(I) IN <<t[i]>> \o PickRows(t, I \ {i})

\* code a comes before code b as a string
RECURSIVE CodeLess(_, _)
CodeLess(a, b) ==
    IF b = <<>> THEN FALSE
    ELSE IF a = <<>> THEN TRUE
    ELSE IF a[1] # b[1] THEN a[1] < b[1]
    ELSE CodeLess(Tail(a), Tail(b))

\* "SSYK1" < "SSYK2" < "SSYK3" < "SSYK4" as strings
LevelOrd(level) ==
    CASE level = "SSYK1" -> 1 [] level = "SSYK2" -> 2
      [] level = "SSYK3" -> 3 [] level = "SSYK4" -> 4

(***************************************************************************)
(* merge.py : the Identity Resolver                                        *)
(***************************************************************************)
MaxFiles == 2        \* at most this many raw extracts
MaxRawRows == 3      \* at most this many rows in all raw extracts together

ID_CANDIDATES == <<"code", "occupation", "age", "year", "sex">>
PROVENANCE_COLS == <<"source_file", "source_rank">>
REQUIRED_COLS == {"count"}

RawCols == {"code", "occupation", "age", "sex", "year", "count"}
\* the schemas of the raw extracts that are tried
ColumnSets == {RawCols, RawCols \ {"occupation"}, RawCols \ {"count"}, {"count"}}

RawValues(c) ==
    CASE c = "code" -> {<<1, 1, 1, 1>>, <<2, 1, 1, 1>>}
      [] c = "occupation" -> {"Managers", "Chief executives"}
      [] c = "age" -> {"16-24"}
      [] c = "sex" -> {"men"}
      [] c = "year" -> {2020}
      [] c = "count" -> {10, 15}

\* the value a row carries in a column its schema does not have (never read)
Absent(c) ==
    CASE c = "code" -> <<>>
      [] c \in {"year", "count"} -> 0
      [] OTHER -> ""

ColValues(cols, c) == IF c \in cols THEN RawValues(c) ELSE {Absent(c)}

\* the raw rows of a schema: one value per column of the schema; next to
\* two occupation labels one code is tried
RawRows(cols) ==
    [code : IF "occupation" \in cols THEN {<<1, 1, 1, 1>>} ELSE ColValues(cols, "code"),
     occupation : ColValues(cols, "occupation"),
     age : ColValues(cols, "age"), sex : ColValues(cols, "sex"),
     year : ColValues(cols, "year"), count : ColValues(cols, "count")]

RECURSIVE FilesOf(_, _, _)
\* the sequences of exactly f tables over S that hold at most r rows together
FilesOf(S, f, r) ==
    IF f = 0 THEN {<<>>}
    ELSE UNION {{<<t>> \o rest : rest \in FilesOf(S, f - 1, r - Len(t))} :
                   t \in SeqsUpTo(S, r)}

get_id_cols(columns) == SelectSeq(ID_CANDIDATES, LAMBDA c : c \in columns)

RECURSIVE lazy_union_from(_, _)
lazy_union_from(fs, k) ==
    IF k > Len(fs) THEN <<>>
    ELSE [i \in 1..Len(fs[k]) |->
             [data |-> fs[k][i], source_file |-> k, source_rank |-> k - 1]]
         \o lazy_union_from(fs, k + 1)

\* pl.concat of the files, each row tagged with its file and rank (0 = newest)
lazy_union(fs) == lazy_union_from(fs, 1)

lf_rowcount(lf) == Len(lf)

\* the identity of a row of the union: its values in the identity columns
IdOf(row, id_cols) == [c \in Range(id_cols) |-> row.data[c]]

\* the rows of lf that share the identity of row i
IdGroup(lf, id_cols, i) ==
    {j \in DOMAIN lf : IdOf(lf[j], id_cols) = IdOf(lf[i], id_cols)}

\* .with_columns(pl.len().over(id_cols)).filter(_n > 1).select(pl.len())
DupRows(lf, id_cols) ==
    Cardinality({i \in DOMAIN lf : Cardinality(IdGroup(lf, id_cols, i)) > 1})

\* .group_by(id_cols).agg(pl.len()).filter(n > 1).select(pl.len())
DupGroups(lf, id_cols) ==
    Cardinality({IdOf(lf[i], id_cols) : i \in
                    {j \in DOMAIN lf : Cardinality(IdGroup(lf, id_cols, j)) > 1}})

\* .group_by(id_cols).agg(count.n_unique()).filter(n_unique_count > 1)
ConflictGroups(lf, id_cols) ==
    Cardinality({IdOf(lf[i], id_cols) : i \in
                    {j \in DOMAIN lf :
                        Cardinality({lf[k].data["count"] :
                                        k \in IdGroup(lf, id_cols, j)}) > 1}})

\* the mutant: unique(subset=id_cols, keep="none") drops every duplicated identity
KeptSetsKeepNone(lf, id_cols) ==
    {{i \in DOMAIN lf : Cardinality(IdGroup(lf, id_cols, i)) = 1}}

\* The index sets that .sort("source_rank").unique(subset=id_cols, keep="first")
\* can keep: one row per identity, of the smallest source_rank of its group.
\* The sort is not stable (maintain_order is left False), so among the rows
\* of the smallest rank any one may come first.
KeptSets(lf, id_cols) ==
    {sel \in SUBSET (DOMAIN lf) :
        /\ \A i \in DOMAIN lf :
              Cardinality(sel \cap IdGroup(lf, id_cols, i)) = 1
        /\ \A j \in sel : \A k \in IdGroup(lf, id_cols, j) :
              lf[j].source_rank <= lf[k].source_rank}

\* df_resolved.drop(cols_to_drop)
DropProvenance(t) == [i \in DOMAIN t |-> t[i].data]

\* the variables of the scripts that are not running
IdleMerge ==
    /\ first_cols = {} /\ files = <<>> /\ combined_lf = <<>>
    /\ merge_stats = Null /\ df_resolved = <<>> /\ merged_out = <<>>

IdleAgg ==
    /\ in_cols = {} /\ in_file = <<>> /\ df = <<>> /\ lf_levels = <<>> /\ df_all = <<>>
    /\ in_exists = FALSE /\ map_exists = FALSE /\ map_file = <<>>
    /\ df_name_maps = <<>> /\ df_join = <<>> /\ diag = Null /\ out_file = <<>>

NoTable == [cols |-> <<>>, rows |-> <<>>]

NoFile == [exists |-> FALSE, text |-> <<>>, writers |-> {}]

IdlePull ==
    /\ tasks = <<>> /\ results = <<>> /\ raw_dir = <<>> /\ log_dir = <<>>
    /\ cfg_max_logs = 0 /\ clock = 0 /\ log_init = NoFile

IdlePipe ==
    /\ daioe_src = <<>> /\ scb_lf = <<>> /\ daioe_lf = NoTable /\ scb_lv4 = <<>>
    /\ daioe_scb = <<>> /\ descending = FALSE /\ daioe_all_levels = <<>>
    /\ ext_once = NoTable /\ ext_twice = NoTable
    /\ collects = <<>> /\ sink_out = <<>>

InitMerge ==
    /\ prog = "merge"
    /\ pc = "start"
    /\ first_cols \in ColumnSets
    /\ files \in UNION {FilesOf(RawRows(first_cols), f, MaxRawRows) : f \in 0..MaxFiles}
    /\ combined_lf = <<>>
    /\ merge_stats = Null
    /\ df_resolved = <<>>
    /\ merged_out = <<>>
    /\ IdleAgg /\ IdlePipe /\ IdlePull

\* lines 109-113: no file matches ssyk12*.parquet
MergeNoFiles ==
    /\ prog = "merge" /\ pc = "start"
    /\ files = <<>>
    /\ pc' = "exit"
    /\ UNCHANGED <<prog, mergeVars, notMergeVars>>

\* lines 122-127: none of the identity candidates is a column
MergeNoIdCols ==
    /\ prog = "merge" /\ pc = "start"
    /\ files # <<>>
    /\ get_id_cols(first_cols) = <<>>
    /\ pc' = "exit"
    /\ UNCHANGED <<prog, mergeVars, notMergeVars>>

\* lines 129-132: the count column is missing
MergeMissingRequired ==
    /\ prog = "merge" /\ pc = "start"
    /\ files # <<>>
    /\ get_id_cols(first_cols) # <<>>
    /\ REQUIRED_COLS \ first_cols # {}
    /\ pc' = "exit"
    /\ UNCHANGED <<prog, mergeVars, notMergeVars>>

\* lines 134-135
MergeUnion ==
    /\ prog = "merge" /\ pc = "start"
    /\ files # <<>>
    /\ get_id_cols(first_cols) # <<>>
    /\ REQUIRED_COLS \ first_cols = {}
    /\ combined_lf' = lazy_union(files)
    /\ pc' = "combined"
    /\ UNCHANGED <<notMergeVars, prog, first_cols, files, merge_stats, df_resolved, merged_out>>

\* lines 139-173
MergeStats ==
    /\ prog = "merge" /\ pc = "combined"
    /\ LET id_cols == get_id_cols(first_cols) IN
          merge_stats' = [combined_rows |-> lf_rowcount(combined_lf),
                          dup_rows |-> DupRows(combined_lf, id_cols),
                          dup_groups |-> DupGroups(combined_lf, id_cols),
                          conflict_groups |-> ConflictGroups(combined_lf, id_cols)]
    /\ pc' = "stats"
    /\ UNCHANGED <<notMergeVars, prog, first_cols, files, combined_lf, df_resolved, merged_out>>

\* lines 176-181
MergeResolve ==
    /\ prog = "merge" /\ pc = "stats"
    /\ \E sel \in KeptSets(combined_lf, get_id_cols(first_cols)) :
          df_resolved' = PickRows(combined_lf, sel)
    /\ pc' = "resolved"
    /\ UNCHANGED <<notMergeVars, prog, first_cols, files, combined_lf, merge_stats, merged_out>>

\* lines 186-190
MergeWrite ==
    /\ prog = "merge" /\ pc = "resolved"
    /\ merged_out' = DropProvenance(df_resolved)
    /\ pc' = "done"
    /\ UNCHANGED <<notMergeVars, prog, first_cols, files, combined_lf, merge_stats, df_resolved>>

NextMerge ==
    \/ MergeNoFiles
    \/ MergeNoIdCols
    \/ MergeMissingRequired
    \/ MergeUnion
    \/ MergeStats
    \/ MergeResolve
    \/ MergeWrite

SpecMerge == InitMerge /\ [][NextMerge]_vars

(***************************************************************************)
(* aggregate.py : the Hierarchy Builder                                    *)
(***************************************************************************)
MaxAggRows == 3      \* at most this many rows in the resolved table

AGG_REQUIRED_COLS == {"code", "age", "sex", "year", "count"}
\* the schemas of paths.in_file that are tried
AggColumnSets == {AGG_REQUIRED_COLS \cup {"occupation"}, AGG_REQUIRED_COLS,
                  AGG_REQUIRED_COLS \ {"count"}}

\* the rows of paths.in_file: the codes 1111, 1121, 2111 and the short code 11
AggRows(cols) ==
    [code : {<<1, 1, 1, 1>>, <<1, 1, 2, 1>>, <<2, 1, 1, 1>>, <<1, 1>>},
     age : {"16-24"}, sex : {"men"}, year : {2020},
     count : IF "count" \in cols THEN {1, 2} ELSE {0}]
    \cup [code : {<<1, 1, 1, 1>>, <<1, 1, 2, 1>>, <<2, 1, 1, 1>>, <<1, 1>>},
          age : {"16-24"}, sex : {"women"}, year : {2020},
          count : IF "count" \in cols THEN {1} ELSE {0}]

\* str.slice(offset, length) on a code: at most length characters from offset
StrSlice(s, offset, length) ==
    SubSeq(s, offset + 1, IF offset + length < Len(s) THEN offset + length ELSE Len(s))

\* the mutant: ssyk1 cut with the length of ssyk2
add_ssyk_levels_row_bad(r) ==
    [code |-> r.code, age |-> r.age, sex |-> r.sex, year |-> r.year,
     count |-> r.count,
     ssyk4 |-> r.code,
     ssyk3 |-> StrSlice(r.code, 0, 3),
     ssyk2 |-> StrSlice(r.code, 0, 2),
     ssyk1 |-> StrSlice(r.code, 0, 2)]

add_ssyk_levels_row(r) ==
    [code |-> r.code, age |-> r.age, sex |-> r.sex, year |-> r.year,
     count |-> r.count,
     ssyk4 |-> r.code,
     ssyk3 |-> StrSlice(r.code, 0, 3),
     ssyk2 |-> StrSlice(r.code, 0, 2),
     ssyk1 |-> StrSlice(r.code, 0, 1)]

add_ssyk_levels(t) == [i \in DOMAIN t |-> add_ssyk_levels_row(t[i])]

\* the group of row i under group_by([level_col, "age", "sex", "year"])
LevelGroup(t, level_col, i) ==
    {j \in DOMAIN t : /\ t[j][level_col] = t[i][level_col]
                      /\ t[j].age = t[i].age
                      /\ t[j].sex = t[i].sex
                      /\ t[j].year = t[i].year}

\* One row per group, with the sum of count.  group_by leaves the order of
\* the groups open; the model lists them by their first row.
agg_level(t, level_col, level_name) ==
    LET firsts == {i \in DOMAIN t : \A j \in LevelGroup(t, level_col, i) : i <= j}
        row(i) == [level |-> level_name, ssyk_code |-> t[i][level_col],
                   age |-> t[i].age, sex |-> t[i].sex, year |-> t[i].year,
                   count |-> SumOver(LevelGroup(t, level_col, i),
                                     [j \in DOMAIN t |-> t[j].count])]
    IN  PickRows([i \in DOMAIN t |-> row(i)], firsts)

aggregate_all_levels(t) ==
    agg_level(t, "ssyk4", "SSYK4") \o agg_level(t, "ssyk3", "SSYK3")
    \o agg_level(t, "ssyk2", "SSYK2") \o agg_level(t, "ssyk1", "SSYK1")

MaxMapRows == 2      \* at most this many rows in the mapping file
MaxNamedRows == 2    \* at most this many input rows next to a mapping file

\* ensure_inputs: the error it raises, or "ok"; the mutant forgets the
\* mapping file
ensure_inputs_in_file_only(in_e, map_e) ==
    IF ~in_e THEN "FileNotFoundError: in_file" ELSE "ok"

ensure_inputs(in_e, map_e) ==
    IF ~in_e THEN "FileNotFoundError: in_file"
    ELSE IF ~map_e THEN "FileNotFoundError: map_file"
    ELSE "ok"

\* a blank in a code of the mapping file
Blank == -1

RECURSIVE StripLeft(_)
StripLeft(s) == IF s # <<>> /\ s[1] = Blank THEN StripLeft(Tail(s)) ELSE s

RECURSIVE StripRight(_)
StripRight(s) ==
    IF s # <<>> /\ s[Len(s)] = Blank THEN StripRight(SubSeq(s, 1, Len(s) - 1)) ELSE s

\* str.strip_chars()
StripChars(s) == StripRight(StripLeft(s))

\* the mutant: every row of the mapping file is kept
load_name_map_keep_all(rows) ==
    [i \in DOMAIN rows |-> [code |-> StripChars(rows[i].code), name |-> rows[i].name]]

\* load_name_map: codes stripped, then unique(subset=["code"], keep="first")
load_name_map(rows) ==
    LET stripped == [i \in DOMAIN rows |->
                        [code |-> StripChars(rows[i].code), name |-> rows[i].name]]
        firsts == {i \in DOMAIN rows :
                      \A j \in 1..(i - 1) : stripped[j].code # stripped[i].code}
    IN  PickRows(stripped, firsts)

\* a row of df_all with the column the join adds, renamed to occupation
WithOccupation(r, name) ==
    [level |-> r.level, ssyk_code |-> r.ssyk_code, age |-> r.age, sex |-> r.sex,
     year |-> r.year, count |-> r.count, occupation |-> name]

\* df_all.join(df_name_maps, left_on="ssyk_code", right_on="code", how="left")
RECURSIVE map_occupation_names(_, _)
map_occupation_names(left, right) ==
    IF left = <<>> THEN <<>>
    ELSE LET ms == SelectSeq(right, LAMBDA x : x.code = left[1].ssyk_code)
         IN  (IF ms = <<>> THEN <<WithOccupation(left[1], Null)>>
              ELSE [k \in DOMAIN ms |-> WithOccupation(left[1], ms[k].name)])
             \o map_occupation_names(Tail(left), right)

\* the (level, ssyk_code) pairs in S, sorted by level, then by code
RECURSIVE SortPairs(_)
SortPairs(S) ==
    IF S = {} THEN <<>>
    ELSE LET p == CHOOSE x \in S : \A y \in S :
                      ~(\/ LevelOrd(y.level) < LevelOrd(x.level)
                        \/ /\ y.level = x.level
                           /\ CodeLess(y.ssyk_code, x.ssyk_code))
         IN  <<p>> \o SortPairs(S \ {p})

\* diagnostics: diag and unmapped
diagnostics(t) ==
    LET nulls == {i \in DOMAIN t : t[i].occupation = Null}
    IN  [unmapped_rows |-> Cardinality(nulls),
         unique_ssyk_codes |-> Cardinality({t[i].ssyk_code : i \in DOMAIN t}),
         unmapped |-> SortPairs({[level |-> t[i].level, ssyk_code |-> t[i].ssyk_code] :
                                    i \in nulls})]

\* what paths.out_file holds from an earlier run
OldOutput ==
    <<[level |-> "SSYK1", ssyk_code |-> <<9>>, age |-> "16-24", sex |-> "men",
       year |-> 2019, count |-> 1, occupation |-> Null]>>

\* the rows of paths.map_file: code and name
MapRows ==
    [code : {<<1>>, <<1, Blank>>, <<1, 1, 1, 1>>},
     name : {Null, Some("Managers"), Some("Chief executives")}]

\* the input rows that are tried next to the mapping files of MapRows
NamedRows ==
    [code : {<<1, 1, 1, 1>>, <<2, 1, 1, 1>>},
     age : {"16-24"}, sex : {"men", "women"}, year : {2020}, count : {1}]

InitAgg ==
    /\ prog = "aggregate"
    /\ pc = "start"
    /\ in_exists \in BOOLEAN
    /\ map_exists \in BOOLEAN
    /\ in_cols \in (IF in_exists THEN AggColumnSets ELSE {{}})
    /\ \/ /\ in_file \in (IF in_exists THEN SeqsUpTo(AggRows(in_cols), MaxAggRows)
                          ELSE {<<>>})
          /\ map_file \in (IF map_exists
                           THEN {<<[code |-> <<1>>, name |-> Some("Managers")]>>}
                           ELSE {<<>>})
       \/ /\ in_exists /\ map_exists /\ in_cols = AGG_REQUIRED_COLS
          /\ in_file \in SeqsUpTo(NamedRows, MaxNamedRows)
          /\ map_file \in SeqsUpTo(MapRows, MaxMapRows)
    /\ df = <<>> /\ lf_levels = <<>> /\ df_all = <<>>
    /\ df_name_maps = <<>> /\ df_join = <<>> /\ diag = Null
    /\ out_file = OldOutput
    /\ IdleMerge /\ IdlePipe /\ IdlePull

\* main, line 159: ensure_inputs raises
AggEnsureInputsFails ==
    /\ prog = "aggregate" /\ pc = "start"
    /\ ensure_inputs(in_exists, map_exists) # "ok"
    /\ pc' = ensure_inputs(in_exists, map_exists)
    /\ UNCHANGED <<prog, aggVars, notAggVars>>

\* main, lines 159-161; load_ssyk4, lines 58-61: a required column is missing
AggLoadFails ==
    /\ prog = "aggregate" /\ pc = "start"
    /\ ensure_inputs(in_exists, map_exists) = "ok"
    /\ AGG_REQUIRED_COLS \ in_cols # {}
    /\ pc' = "ValueError"
    /\ UNCHANGED <<prog, aggVars, notAggVars>>

\* main, lines 159-161; load_ssyk4, lines 56-72
AggLoad ==
    /\ prog = "aggregate" /\ pc = "start"
    /\ ensure_inputs(in_exists, map_exists) = "ok"
    /\ AGG_REQUIRED_COLS \ in_cols = {}
    /\ df' = in_file
    /\ pc' = "loaded"
    /\ UNCHANGED <<prog, in_cols, in_file, lf_levels, df_all, aggFiles, aggMapVars, notAggVars>>

\* main, line 164
AggAddLevels ==
    /\ prog = "aggregate" /\ pc = "loaded"
    /\ lf_levels' = add_ssyk_levels(df)
    /\ pc' = "levels"
    /\ UNCHANGED <<prog, in_cols, in_file, df, df_all, aggFiles, aggMapVars, notAggVars>>

\* main, line 165
AggAllLevels ==
    /\ prog = "aggregate" /\ pc = "levels"
    /\ df_all' = aggregate_all_levels(lf_levels)
    /\ pc' = "aggregated"
    /\ UNCHANGED <<prog, in_cols, in_file, df, lf_levels, aggFiles, aggMapVars, notAggVars>>

\* main, line 177: read_csv needs the mapping file
AggLoadNameMap ==
    /\ prog = "aggregate" /\ pc = "aggregated"
    /\ map_exists
    /\ df_name_maps' = load_name_map(map_file)
    /\ pc' = "name_map"
    /\ UNCHANGED <<prog, in_cols, in_file, df, lf_levels, df_all, aggFiles,
                   df_join, diag, out_file, notAggVars>>

\* main, line 178
AggMapNames ==
    /\ prog = "aggregate" /\ pc = "name_map"
    /\ df_join' = map_occupation_names(df_all, df_name_maps)
    /\ pc' = "joined"
    /\ UNCHANGED <<prog, in_cols, in_file, df, lf_levels, df_all, aggFiles,
                   df_name_maps, diag, out_file, notAggVars>>

\* main, lines 180-186
AggDiagnostics ==
    /\ prog = "aggregate" /\ pc = "joined"
    /\ diag' = diagnostics(df_join)
    /\ pc' = "diagnosed"
    /\ UNCHANGED <<prog, in_cols, in_file, df, lf_levels, df_all, aggFiles,
                   df_name_maps, df_join, out_file, notAggVars>>

\* main, line 188: write_output
AggWrite ==
    /\ prog = "aggregate" /\ pc = "diagnosed"
    /\ out_file' = df_join
    /\ pc' = "done"
    /\ UNCHANGED <<prog, in_cols, in_file, df, lf_levels, df_all, aggFiles,
                   df_name_maps, df_join, diag, notAggVars>>

NextAgg ==
    \/ AggEnsureInputsFails
    \/ AggLoadFails
    \/ AggLoad
    \/ AggAddLevels
    \/ AggAllLevels
    \/ AggLoadNameMap
    \/ AggMapNames
    \/ AggDiagnostics
    \/ AggWrite

SpecAgg == InitAgg /\ [][NextAgg]_vars

(***************************************************************************)
(* pipeline.py : hierarchy of the exposure table, SSYK4 counts             *)
(***************************************************************************)
min_year == 2014
pct_scale == 100

\* the columns of the exposure table after add_ssyk_hierarchy
DaioeCols == <<"year", "daioe_allapps", "code_1", "code_2", "code_3", "code_4">>

\* One row of add_ssyk_hierarchy: code_1..code_4 cut from the 4-digit code
\* column (a text column, so the cast to Utf8 changes nothing), the
\* ssyk2012_* columns dropped.
add_ssyk_hierarchy_row(r) ==
    [year |-> r.year, daioe_allapps |-> r.daioe_allapps,
     code_1 |-> StrSlice(r.ssyk2012_4, 0, 1),
     code_2 |-> StrSlice(r.ssyk2012_4, 0, 2),
     code_3 |-> StrSlice(r.ssyk2012_4, 0, 3),
     code_4 |-> StrSlice(r.ssyk2012_4, 0, 4)]

add_ssyk_hierarchy(t) ==
    [cols |-> DaioeCols,
     rows |-> SelectSeq([i \in DOMAIN t |-> add_ssyk_hierarchy_row(t[i])],
                        LAMBDA r : r.year >= min_year)]

\* the group of row i under group_by([year_col, code_col])
YearCodeGroup(t, i) ==
    {j \in DOMAIN t : t[j].year = t[i].year /\ t[j].ssyk_code = t[i].ssyk_code}

\* Filter SCB to the codes of 4 characters and sum count per (year, code);
\* the groups are listed by their first row.
scb_level4_counts(t) ==
    LET t4 == SelectSeq(t, LAMBDA r : Len(r.ssyk_code) = 4)
        firsts == {i \in DOMAIN t4 : \A j \in YearCodeGroup(t4, i) : i <= j}
        row(i) == [year |-> t4[i].year, ssyk_code |-> t4[i].ssyk_code,
                   total_count |-> SumOver(YearCodeGroup(t4, i),
                                           [j \in DOMAIN t4 |-> t4[j].count])]
    IN  PickRows([i \in DOMAIN t4 |-> row(i)], firsts)

(***************************************************************************)
(* pipeline.py : the Temporal Extender                                     *)
(***************************************************************************)
MaxExtRows == 3      \* at most this many rows in each table given to the extender

\* select(pl.max(year_col)).collect().item(); None on a table without rows
MaxYear(rows) == Max({rows[i].year : i \in DOMAIN rows})

\* the mutant: the range starts at daioe_max
MissingFromMax(daioe_max, scb_max) ==
    [k \in 1..(scb_max - daioe_max + 1) |-> daioe_max + k - 1]

\* the mutant: the range stops before scb_max
MissingBeforeMax(daioe_max, scb_max) ==
    [k \in 1..(scb_max - daioe_max - 1) |-> daioe_max + k]

\* list(range(daioe_max + 1, scb_max + 1))
MissingYears(daioe_max, scb_max) ==
    [k \in 1..(scb_max - daioe_max) |-> daioe_max + k]

DropCol(cols, c) == SelectSeq(cols, LAMBDA x : x # c)

\* .drop(year_col).join(years_lf, how="cross"): every row with every year,
\* the year column last
RECURSIVE CrossYears(_, _)
CrossYears(rows, years) ==
    IF rows = <<>> THEN <<>>
    ELSE [k \in DOMAIN years |-> [rows[1] EXCEPT !.year = years[k]]]
         \o CrossYears(Tail(rows), years)

\* lines 104-123, for tables that both have rows
extend_daioe_years_to_match_scb(A, B) ==
    LET daioe_max == MaxYear(A.rows)
        scb_max == MaxYear(B)
        missing == MissingYears(daioe_max, scb_max)
        replicated ==
            [cols |-> DropCol(A.cols, "year") \o <<"year">>,
             rows |-> CrossYears(SelectSeq(A.rows, LAMBDA r : r.year = daioe_max),
                                 missing)]
        \* .select(daioe_lf.collect_schema().names())
        selected == [cols |-> A.cols, rows |-> replicated.rows]
    IN  IF missing = <<>> THEN A
        ELSE [cols |-> A.cols, rows |-> A.rows \o selected.rows]

\* the evaluations extend_daioe_years_to_match_scb triggers, lines 101-102
ExtendCollects == <<"extend: daioe_max", "extend: scb_max">>

ExtCodes == {<<1, 1, 1, 1>>, <<2, 1, 1, 1>>}
\* the rows of the table to extend
ExtRowsA ==
    {add_ssyk_hierarchy_row([ssyk2012_4 |-> c, year |-> y, daioe_allapps |-> Some(m)]) :
        c \in ExtCodes, y \in {2020, 2021}, m \in {10, 20}}
\* the rows of the reference table
ExtRowsB == [year : {2020, 2023}, ssyk_code : {<<1, 1, 1, 1>>}, total_count : {5}]

InitExtend ==
    /\ prog = "extend"
    /\ pc = "start"
    /\ daioe_lf \in [cols : {DaioeCols}, rows : SeqsUpTo(ExtRowsA, MaxExtRows)]
    /\ scb_lv4 \in SeqsUpTo(ExtRowsB, MaxExtRows)
    /\ daioe_src = <<>> /\ scb_lf = <<>> /\ daioe_scb = <<>>
    /\ descending = FALSE /\ daioe_all_levels = <<>>
    /\ ext_once = NoTable /\ ext_twice = NoTable
    /\ collects = <<>> /\ sink_out = <<>>
    /\ IdleMerge /\ IdleAgg /\ IdlePull

\* lines 101-104: the maximum of a table without rows is None, and
\* None + 1 raises
ExtendRaises ==
    /\ prog = "extend" /\ pc = "start"
    /\ daioe_lf.rows = <<>> \/ scb_lv4 = <<>>
    /\ collects' = collects \o ExtendCollects
    /\ pc' = "TypeError"
    /\ UNCHANGED <<prog, daioe_src, scb_lf, daioe_lf, scb_lv4, daioe_scb, descending,
                   daioe_all_levels, ext_once, ext_twice, sink_out, notPipeVars>>

ExtendOnce ==
    /\ prog = "extend" /\ pc = "start"
    /\ daioe_lf.rows # <<>> /\ scb_lv4 # <<>>
    /\ ext_once' = extend_daioe_years_to_match_scb(daioe_lf, scb_lv4)
    /\ collects' = collects \o ExtendCollects
    /\ pc' = "once"
    /\ UNCHANGED <<prog, daioe_src, scb_lf, daioe_lf, scb_lv4, daioe_scb,
                   descending, daioe_all_levels, ext_twice, sink_out, notPipeVars>>

\* the extended table cannot be empty: it holds the rows of daioe_lf
ExtendTwice ==
    /\ prog = "extend" /\ pc = "once"
    /\ ext_twice' = extend_daioe_years_to_match_scb(ext_once, scb_lv4)
    /\ collects' = collects \o ExtendCollects
    /\ pc' = "twice"
    /\ UNCHANGED <<prog, daioe_src, scb_lf, daioe_lf, scb_lv4, daioe_scb,
                   descending, daioe_all_levels, ext_once, sink_out, notPipeVars>>

NextExtend ==
    \/ ExtendRaises
    \/ ExtendOnce
    \/ ExtendTwice

SpecExtend == InitExtend /\ [][NextExtend]_vars


(***************************************************************************)
(* pipeline.py : the Weighted Aggregator and Percentile Ranker             *)
(*                                                                         *)
(* A float is a fraction <<num, den>>: den > 0 for a number, <<0, 0>> for  *)
(* NaN (0/0) and <<n, 0>> for an infinity.  Polars orders NaN after every  *)
(* number and takes NaN equal to NaN.                                      *)
(***************************************************************************)
IsNaN(a) == a[1] = 0 /\ a[2] = 0
FLess(a, b) ==
    IF IsNaN(a) THEN FALSE
    ELSE IF IsNaN(b) THEN TRUE
    ELSE a[1] * b[2] < b[1] * a[2]
FEq(a, b) == ~FLess(a, b) /\ ~FLess(b, a)

\* the group of row i under group_by(["year", code_col])
CodeGroup(t, code_col, i) ==
    {j \in DOMAIN t : t[j].year = t[i].year /\ t[j][code_col] = t[i][code_col]}

\* the mutant: w.max() in place of w.sum()
WeightSumMax(t, G) ==
    LET present == {j \in G : t[j].total_count # Null}
    IN  IF present = {} THEN 0
        ELSE Max({t[j].total_count[1] : j \in present})

\* w.sum(): the missing weights are skipped, and the sum of none is 0
WeightSum(t, G) ==
    SumOver({j \in G : t[j].total_count # Null},
            [j \in DOMAIN t |-> t[j].total_count[1]])

\* pl.col(daioe_cols).mean(): the mean of the values that are present, and
\* null when none is
Mean(t, G) ==
    LET present == {j \in G : t[j].daioe_allapps # Null}
    IN  IF present = {} THEN Null
        ELSE <<SumOver(present, [j \in DOMAIN t |-> t[j].daioe_allapps[1]]),
               Cardinality(present)>>

\* the mutant: the metric is summed without its weight
WeightedMeanNoWeights(t, G) ==
    LET both == {j \in G : t[j].daioe_allapps # Null /\ t[j].total_count # Null}
    IN  <<SumOver(both, [j \in DOMAIN t |-> t[j].daioe_allapps[1]]),
          WeightSum(t, G)>>

\* (pl.col(daioe_cols) * w).sum() / w.sum(): a product with a missing factor
\* is missing and skipped by the sum; the division is the true division
WeightedMean(t, G) ==
    LET both == {j \in G : t[j].daioe_allapps # Null /\ t[j].total_count # Null}
    IN  <<SumOver(both, [j \in DOMAIN t |->
                            t[j].daioe_allapps[1] * t[j].total_count[1]]),
          WeightSum(t, G)>>

\* lines 168-178: one row per (year, code at the level), listed by the first
\* row of the group
GroupAgg(t, code_col, level_label) ==
    LET firsts == {i \in DOMAIN t : \A j \in CodeGroup(t, code_col, i) : i <= j}
        row(i) == [level |-> level_label, ssyk_code |-> t[i][code_col],
                   year |-> t[i].year,
                   weight_sum |-> WeightSum(t, CodeGroup(t, code_col, i)),
                   daioe_allapps_avg |-> Mean(t, CodeGroup(t, code_col, i)),
                   daioe_allapps_wavg |-> WeightedMean(t, CodeGroup(t, code_col, i))]
    IN  PickRows([i \in DOMAIN t |-> row(i)], firsts)

\* the partition of row i under .over(["year", "level"])
Partition(out, i) ==
    {j \in DOMAIN out : out[j].year = out[i].year /\ out[j].level = out[i].level}

\* v comes before w in the order of the ranking
Before(v, w, desc) == IF desc THEN FLess(w, v) ELSE FLess(v, w)

\* the indices in I sorted by their value in column col
RECURSIVE SortedIdx(_, _, _, _)
SortedIdx(out, col, I, desc) ==
    IF I = {} THEN <<>>
    ELSE LET i == CHOOSE x \in I :
                     \A y \in I : ~Before(out[y][col], out[x][col], desc)
         IN  <<i>> \o SortedIdx(out, col, I \ {i}, desc)

PosOf(sorted, i) == CHOOSE k \in DOMAIN sorted : sorted[k] = i

\* the mutant: rank(method="min"): tied values get their first position
RankMin(out, col, i, desc) ==
    IF out[i][col] = Null THEN Null
    ELSE LET present == {j \in Partition(out, i) : out[j][col] # Null}
             sorted == SortedIdx(out, col, present, desc)
             ties == {j \in present : FEq(out[j][col], out[i][col])}
         IN  <<Min({PosOf(sorted, j) : j \in ties}), 1>>

\* .rank(method="average", descending=descending).over(group_keys): the
\* values that are present are sorted, tied values get the mean of the
\* positions they occupy, a missing value gets no rank
Rank(out, col, i, desc) ==
    IF out[i][col] = Null THEN Null
    ELSE LET present == {j \in Partition(out, i) : out[j][col] # Null}
             sorted == SortedIdx(out, col, present, desc)
             ties == {j \in present : FEq(out[j][col], out[i][col])}
         IN  <<SumOver(ties, [j \in DOMAIN out |-> PosOf(sorted, j)]),
               Cardinality(ties)>>

\* the mutant: rank / (n - 1), the rank not moved to start at 0
PercentileOfRank(out, col, i, desc) ==
    LET n == Cardinality(Partition(out, i))
        rank == Rank(out, col, i, desc)
    IN  IF n > 1
        THEN IF rank = Null THEN Null
             ELSE <<rank[1] * pct_scale, rank[2] * (n - 1)>>
        ELSE <<0, 1>>

\* lines 193-199: when(n > 1).then((rank - 1) / (n - 1)).otherwise(0.0) * pct_scale
Percentile(out, col, i, desc) ==
    LET n == Cardinality(Partition(out, i))
        rank == Rank(out, col, i, desc)
    IN  IF n > 1
        THEN IF rank = Null THEN Null
             ELSE <<(rank[1] - rank[2]) * pct_scale, rank[2] * (n - 1)>>
        ELSE <<0, 1>>

\* the mutant: the table is returned before the percentile columns are added
aggregate_daioe_level_no_percentiles(t, code_col, level_label, desc) ==
    GroupAgg(t, code_col, level_label)

\* lines 146-200, with add_percentiles = True
aggregate_daioe_level(t, code_col, level_label, desc) ==
    LET out == GroupAgg(t, code_col, level_label)
    IN  [i \in DOMAIN out |->
            [level |-> out[i].level, ssyk_code |-> out[i].ssyk_code,
             year |-> out[i].year, weight_sum |-> out[i].weight_sum,
             daioe_allapps_avg |-> out[i].daioe_allapps_avg,
             daioe_allapps_wavg |-> out[i].daioe_allapps_wavg,
             pctl_daioe_allapps_avg |->
                 Percentile(out, "daioe_allapps_avg", i, desc),
             pctl_daioe_allapps_wavg |->
                 Percentile(out, "daioe_allapps_wavg", i, desc)]]

build_all_levels(t, desc) ==
    aggregate_daioe_level(t, "code_4", "SSYK4", desc)
    \o aggregate_daioe_level(t, "code_3", "SSYK3", desc)
    \o aggregate_daioe_level(t, "code_2", "SSYK2", desc)
    \o aggregate_daioe_level(t, "code_1", "SSYK1", desc)

MaxLevelRows == 3    \* at most this many joined rows given to the aggregator
MaxRankRows == 4     \* at most this many joined rows given to the ranker

RECURSIVE NonDecreasing(_, _, _)
\* the sequences of n numbers of lo..hi that never decrease
NonDecreasing(n, lo, hi) ==
    IF n = 0 THEN {<<>>}
    ELSE UNION {{<<k>> \o q : q \in NonDecreasing(n - 1, k, hi)} : k \in lo..hi}

RECURSIVE SetToSeq(_)
SetToSeq(S) ==
    IF S = {} THEN <<>>
    ELSE LET x == CHOOSE y \in S : TRUE IN <<x>> \o SetToSeq(S \ {x})

\* The tables of at most n rows over the rows in S, each multiset of rows in
\* one order: group_by, sum, mean and rank do not read the order of the rows.
TablesUpTo(S, n) ==
    LET dom == SetToSeq(S)
    IN  UNION {{[i \in 1..k |-> dom[q[i]]] : q \in NonDecreasing(k, 1, Len(dom))} :
                  k \in 0..n}

\* the rows of the exposure table before the join
HierarchyRows(codes, years, metrics) ==
    {add_ssyk_hierarchy_row([ssyk2012_4 |-> c, year |-> y, daioe_allapps |-> m]) :
        c \in codes, y \in years, m \in metrics}

\* what the left join adds: total_count, one value per (year, code_4)
WithWeights(t, wf) ==
    [i \in DOMAIN t |->
        [year |-> t[i].year, daioe_allapps |-> t[i].daioe_allapps,
         code_1 |-> t[i].code_1, code_2 |-> t[i].code_2,
         code_3 |-> t[i].code_3, code_4 |-> t[i].code_4,
         total_count |-> wf[<<t[i].year, t[i].code_4>>]]]

JoinedTables(S, n, weights) ==
    UNION {{WithWeights(t, wf) :
               wf \in [{<<t[i].year, t[i].code_4>> : i \in DOMAIN t} -> weights]} :
              t \in TablesUpTo(S, n)}

IdleLevel ==
    /\ daioe_src = <<>> /\ scb_lf = <<>> /\ daioe_lf = NoTable /\ scb_lv4 = <<>>
    /\ descending = FALSE /\ daioe_all_levels = <<>>
    /\ ext_once = NoTable /\ ext_twice = NoTable
    /\ collects = <<>> /\ sink_out = <<>>
    /\ IdleMerge /\ IdleAgg /\ IdlePull

\* joined tables with missing metrics and missing weights
InitLevel ==
    /\ prog = "levels"
    /\ pc = "start"
    /\ daioe_scb \in JoinedTables(
           HierarchyRows({<<1, 1, 1, 1>>, <<1, 1, 2, 1>>, <<2, 1, 1, 1>>},
                         {2020}, {Null, Some(10), Some(30)})
           \cup HierarchyRows({<<1, 1, 1, 1>>}, {2021}, {Null, Some(10), Some(30)}),
           MaxLevelRows, {Null, Some(1), Some(3)})
    /\ IdleLevel

\* joined tables of up to four codes in one partition, every value present
InitRank ==
    /\ prog = "levels"
    /\ pc = "start"
    /\ daioe_scb \in JoinedTables(
           HierarchyRows({<<1, 1, 1, 1>>, <<1, 1, 2, 1>>, <<1, 2, 1, 1>>, <<2, 1, 1, 1>>},
                         {2020}, {Some(10), Some(20), Some(30)})
           \cup HierarchyRows({<<1, 1, 1, 1>>}, {2021}, {Some(10), Some(30)}),
           MaxRankRows, {Some(1)})
    /\ IdleLevel

\* build_all_levels on the joined table, ascending or descending
LevelBuild ==
    /\ prog = "levels" /\ pc = "start"
    /\ \E desc \in BOOLEAN :
          /\ descending' = desc
          /\ daioe_all_levels' = build_all_levels(daioe_scb, desc)
    /\ pc' = "built"
    /\ UNCHANGED <<prog, daioe_src, scb_lf, daioe_lf, scb_lv4, daioe_scb,
                   ext_once, ext_twice, mainVars, notPipeVars>>

NextLevel == LevelBuild

SpecLevel == InitLevel /\ [][NextLevel]_vars
SpecRank == InitRank /\ [][NextLevel]_vars


(***************************************************************************)
(* pipeline.py : build_pipeline, the Exposure Joiner                       *)
(***************************************************************************)
MaxDaioeRows == 2    \* at most this many rows in the exposure source
MaxScbRows == 2      \* at most this many rows in the SCB source

\* a row of the joined table: the columns of the exposure row and total_count
JoinedRow(r, total_count) ==
    [year |-> r.year, daioe_allapps |-> r.daioe_allapps,
     code_1 |-> r.code_1, code_2 |-> r.code_2,
     code_3 |-> r.code_3, code_4 |-> r.code_4,
     total_count |-> total_count]

\* the rows of the count table that match an exposure row on
\* (year, code_4) = (year, ssyk_code)
Matches(r, right) ==
    SelectSeq(right, LAMBDA x : x.year = r.year /\ x.ssyk_code = r.code_4)

\* the mutant: how="inner", an exposure row without a match is dropped
RECURSIVE InnerJoin(_, _)
InnerJoin(left, right) ==
    IF left = <<>> THEN <<>>
    ELSE LET ms == Matches(left[1], right)
         IN  [k \in DOMAIN ms |-> JoinedRow(left[1], Some(ms[k].total_count))]
             \o InnerJoin(Tail(left), right)

\* daioe_lf.join(scb_lv4, left_on=["year", "code_4"],
\*               right_on=["year", "ssyk_code"], how="left")
RECURSIVE LeftJoin(_, _)
LeftJoin(left, right) ==
    IF left = <<>> THEN <<>>
    ELSE LET ms == Matches(left[1], right)
         IN  (IF ms = <<>> THEN <<JoinedRow(left[1], Null)>>
              ELSE [k \in DOMAIN ms |-> JoinedRow(left[1], Some(ms[k].total_count))])
             \o LeftJoin(Tail(left), right)

\* row a comes before row b under .sort(["level", "year", "ssyk_code"])
RowLess(a, b) ==
    \/ LevelOrd(a.level) < LevelOrd(b.level)
    \/ /\ a.level = b.level
       /\ \/ a.year < b.year
          \/ a.year = b.year /\ CodeLess(a.ssyk_code, b.ssyk_code)

\* the rows of t at the indices in I, sorted; no two rows of the aggregated
\* table share (level, year, ssyk_code)
RECURSIVE SortRows(_, _)
SortRows(t, I) ==
    IF I = {} THEN <<>>
    ELSE LET i == CHOOSE x \in I : \A y \in I : ~RowLess(t[y], t[x])
         IN  <<t[i]>> \o SortRows(t, I \ {i})

\* the rows of config.daioe_source; 0111 is a code of the armed forces
DaioeSrcRows ==
    [ssyk2012_4 : {<<1, 1, 1, 1>>, <<0, 1, 1, 1>>}, year : {2013, 2020},
     daioe_allapps : {Some(10)}]
    \cup [ssyk2012_4 : {<<2, 1, 1, 1>>}, year : {2020}, daioe_allapps : {Some(30)}]

\* the rows of config.scb_source, as aggregate.py writes them
ScbRows ==
    [level : {"SSYK4"}, ssyk_code : {<<1, 1, 1, 1>>, <<2, 1, 1, 1>>},
     age : {"16-24"}, sex : {"men"}, year : {2020, 2021}, count : {2}]
    \cup [level : {"SSYK4"}, ssyk_code : {<<1, 1, 1, 1>>},
          age : {"16-24"}, sex : {"women"}, year : {2020}, count : {3}]
    \cup [level : {"SSYK2"}, ssyk_code : {<<1, 1>>},
          age : {"16-24"}, sex : {"men"}, year : {2020}, count : {5}]

InitPipe ==
    /\ prog = "pipeline"
    /\ pc = "start"
    /\ daioe_src \in SeqsUpTo(DaioeSrcRows, MaxDaioeRows)
    /\ scb_lf \in SeqsUpTo(ScbRows, MaxScbRows)
    /\ daioe_lf = NoTable /\ scb_lv4 = <<>> /\ daioe_scb = <<>>
    /\ descending = FALSE /\ daioe_all_levels = <<>>
    /\ ext_once = NoTable /\ ext_twice = NoTable
    /\ collects = <<>> /\ sink_out = <<>>
    /\ IdleMerge /\ IdleAgg /\ IdlePull

\* build_pipeline, line 245
PipeHierarchy ==
    /\ prog = "pipeline" /\ pc = "start"
    /\ daioe_lf' = add_ssyk_hierarchy(daioe_src)
    /\ pc' = "hierarchy"
    /\ UNCHANGED <<prog, daioe_src, scb_lf, scb_lv4, daioe_scb, descending,
                   daioe_all_levels, ext_once, ext_twice, mainVars, notPipeVars>>

\* build_pipeline, line 248
PipeCounts ==
    /\ prog = "pipeline" /\ pc = "hierarchy"
    /\ scb_lv4' = scb_level4_counts(scb_lf)
    /\ pc' = "counts"
    /\ UNCHANGED <<prog, daioe_src, scb_lf, daioe_lf, daioe_scb, descending,
                   daioe_all_levels, ext_once, ext_twice, mainVars, notPipeVars>>

\* build_pipeline, line 251, on a table without rows
PipeExtendRaises ==
    /\ prog = "pipeline" /\ pc = "counts"
    /\ daioe_lf.rows = <<>> \/ scb_lv4 = <<>>
    /\ collects' = collects \o ExtendCollects
    /\ pc' = "TypeError"
    /\ UNCHANGED <<prog, daioe_src, scb_lf, daioe_lf, scb_lv4, daioe_scb, descending,
                   daioe_all_levels, ext_once, ext_twice, sink_out, notPipeVars>>

\* build_pipeline, line 251
PipeExtend ==
    /\ prog = "pipeline" /\ pc = "counts"
    /\ daioe_lf.rows # <<>> /\ scb_lv4 # <<>>
    /\ daioe_lf' = extend_daioe_years_to_match_scb(daioe_lf, scb_lv4)
    /\ collects' = collects \o ExtendCollects
    /\ pc' = "extended"
    /\ UNCHANGED <<prog, daioe_src, scb_lf, scb_lv4, daioe_scb, descending,
                   daioe_all_levels, ext_once, ext_twice, sink_out, notPipeVars>>

\* build_pipeline, lines 254-262
PipeJoin ==
    /\ prog = "pipeline" /\ pc = "extended"
    /\ daioe_scb' = LeftJoin(daioe_lf.rows, scb_lv4)
    /\ pc' = "joined"
    /\ UNCHANGED <<prog, daioe_src, scb_lf, daioe_lf, scb_lv4, descending,
                   daioe_all_levels, ext_once, ext_twice, mainVars, notPipeVars>>

\* build_pipeline, lines 265-266, with drop_code1_zero = True
PipeDropZero ==
    /\ prog = "pipeline" /\ pc = "joined"
    /\ daioe_scb' = SelectSeq(daioe_scb, LAMBDA r : r.code_1 # <<0>>)
    /\ pc' = "filtered"
    /\ UNCHANGED <<prog, daioe_src, scb_lf, daioe_lf, scb_lv4, descending,
                   daioe_all_levels, ext_once, ext_twice, mainVars, notPipeVars>>

\* build_pipeline, lines 269-283
PipeBuild ==
    /\ prog = "pipeline" /\ pc = "filtered"
    /\ \E desc \in BOOLEAN :
          /\ descending' = desc
          /\ LET built == build_all_levels(daioe_scb, desc)
             IN  daioe_all_levels' = SortRows(built, DOMAIN built)
    /\ pc' = "built"
    /\ UNCHANGED <<prog, daioe_src, scb_lf, daioe_lf, scb_lv4, daioe_scb,
                   ext_once, ext_twice, mainVars, notPipeVars>>

\* main.py, line 24
inspect == TRUE

\* main.py, lines 25-26: inspect_lazy collects the row count
MainInspect ==
    /\ prog = "pipeline" /\ pc = "built"
    /\ inspect
    /\ collects' = Append(collects, "inspect_lazy")
    /\ pc' = "inspected"
    /\ UNCHANGED <<prog, daioe_src, scb_lf, daioe_lf, scb_lv4, daioe_scb, descending,
                   daioe_all_levels, ext_once, ext_twice, sink_out, notPipeVars>>

\* main.py, line 29: sink_parquet evaluates the graph and writes the file
MainSink ==
    /\ prog = "pipeline" /\ pc = "inspected"
    /\ collects' = Append(collects, "sink_parquet")
    /\ sink_out' = daioe_all_levels
    /\ pc' = "done"
    /\ UNCHANGED <<prog, daioe_src, scb_lf, daioe_lf, scb_lv4, daioe_scb, descending,
                   daioe_all_levels, ext_once, ext_twice, notPipeVars>>

NextPipe ==
    \/ PipeHierarchy
    \/ PipeCounts
    \/ PipeExtendRaises
    \/ PipeExtend
    \/ PipeJoin
    \/ PipeDropZero
    \/ PipeBuild
    \/ MainInspect
    \/ MainSink

SpecPipe == InitPipe /\ [][NextPipe]_vars


(***************************************************************************)
(* pull.py : fetching the SCB tables with a worker pool, and the per-table *)
(* update logs                                                             *)
(***************************************************************************)
NumTables == 3       \* the number of configured tables
MaxCalls == 4        \* at most this many update_log calls for one table
MaxLogsTried == 3    \* cfg.max_logs is tried from 1 up to this

\* Config.max_logs and Config.max_workers
max_logs == 20
max_workers == 8

\* cfg.tables.keys(): the table ids
Tables == 1..NumTables

\* the line separator of the log file
NL == 0

\* the first n elements of s
Take(s, n) == SubSeq(s, 1, IF n < Len(s) THEN n ELSE Len(s))

\* "\n".join(entries)
RECURSIVE JoinLines(_)
JoinLines(entries) ==
    IF entries = <<>> THEN <<>>
    ELSE IF Len(entries) = 1 THEN entries[1]
    ELSE entries[1] \o <<NL>> \o JoinLines(Tail(entries))

\* the index of the first separator of text, 0 when it has none
RECURSIVE FirstNL(_, _)
FirstNL(text, i) ==
    IF i > Len(text) THEN 0
    ELSE IF text[i] = NL THEN i
    ELSE FirstNL(text, i + 1)

\* str.splitlines(): the lines of text; a separator at the end opens no line
RECURSIVE SplitLines(_)
SplitLines(text) ==
    IF text = <<>> THEN <<>>
    ELSE LET k == FirstNL(text, 1)
         IN  IF k = 0 THEN <<text>>
             ELSE <<SubSeq(text, 1, k - 1)>> \o SplitLines(SubSeq(text, k + 1, Len(text)))

\* the mutant: the new entry is put last and the first max entries are kept
update_log_append(file, new_entry, max, tab_id) ==
    LET entries == (IF file.exists THEN SplitLines(file.text) ELSE <<>>)
                   \o <<new_entry>>
    IN  [exists |-> TRUE,
         text |-> JoinLines(Take(entries, max)) \o <<NL>>,
         writers |-> file.writers \cup {tab_id}]

\* update_log: the log file after the call of task tab_id with the entry
\* new_entry, a one-token line
update_log(file, new_entry, max, tab_id) ==
    LET entries == <<new_entry>>
                   \o (IF file.exists THEN SplitLines(file.text) ELSE <<>>)
    IN  [exists |-> TRUE,
         text |-> JoinLines(Take(entries, max)) \o <<NL>>,
         writers |-> file.writers \cup {tab_id}]

\* cfg.out_dir / f"{tab_id}.parquet" and cfg.log_dir / f"{tab_id}_update_log.txt":
\* the files are named by the table id
out_path(tab_id) == tab_id
log_path(tab_id) == tab_id

\* the mutant: the exception leaves fetch_clean_write
on_exception_reraise(step) == "raise"

\* fetch_clean_write, lines 194-196: what the task returns on an exception
on_exception(step) == "False"

\* a task that has not been started
NewTask == [at |-> "pending", raised |-> "none", ret |-> "none"]

\* the task of table t ends at a step that raised
Raise(t, step) ==
    tasks' = [tasks EXCEPT ![t] = [at |-> "returned", raised |-> step,
                                   ret |-> on_exception(step)]]


\* min(len(cfg.tables), cfg.max_workers)
workers == Min({Cardinality(Tables), max_workers})

\* a log file that an earlier run wrote
OldLog == [exists |-> TRUE, text |-> <<-1, NL>>, writers |-> {}]

InitPull ==
    /\ prog = "pull"
    /\ pc = "start"
    /\ cfg_max_logs = max_logs
    /\ tasks = [t \in Tables |-> NewTask]
    /\ results = <<>>
    /\ raw_dir = [t \in Tables |-> NoFile]
    /\ log_dir \in {[t \in Tables |-> NoFile], [t \in Tables |-> OldLog]}
    /\ clock = 1
    /\ log_init = NoFile
    /\ IdleMerge /\ IdleAgg /\ IdlePipe

\* main, lines 214-215: the pool is made and every table is submitted
PullSubmit ==
    /\ prog = "pull" /\ pc = "start"
    /\ pc' = "collecting"
    /\ UNCHANGED <<prog, pullVars, notPullVars>>

\* a worker of the pool takes a submitted task
PullStart ==
    /\ prog = "pull" /\ pc \in {"collecting", "crashed"}
    /\ \E t \in Tables :
          /\ tasks[t].at = "pending"
          /\ Cardinality({u \in Tables : tasks[u].at \notin {"pending", "returned"}})
                < workers
          /\ tasks' = [tasks EXCEPT ![t].at = "running"]
    /\ UNCHANGED <<prog, pc, cfg_max_logs, results, raw_dir, log_dir, clock, log_init,
                   notPullVars>>

\* fetch_clean_write, lines 173-178: the calls to SCB return or raise
PullFetch ==
    /\ prog = "pull"
    /\ \E t \in Tables : \E ok \in BOOLEAN :
          /\ tasks[t].at = "running"
          /\ IF ok THEN tasks' = [tasks EXCEPT ![t].at = "fetched"]
             ELSE Raise(t, "fetch")
    /\ UNCHANGED <<prog, pc, cfg_max_logs, results, raw_dir, log_dir, clock, log_init,
                   notPullVars>>

\* fetch_clean_write, lines 181-184: build_maps and transform return or raise
PullTransform ==
    /\ prog = "pull"
    /\ \E t \in Tables : \E ok \in BOOLEAN :
          /\ tasks[t].at = "fetched"
          /\ IF ok THEN tasks' = [tasks EXCEPT ![t].at = "transformed"]
             ELSE Raise(t, "transform")
    /\ UNCHANGED <<prog, pc, cfg_max_logs, results, raw_dir, log_dir, clock, log_init,
                   notPullVars>>

\* fetch_clean_write, lines 187-188: write_parquet writes the file or raises
PullWrite ==
    /\ prog = "pull"
    /\ \E t \in Tables : \E ok \in BOOLEAN :
          /\ tasks[t].at = "transformed"
          /\ IF ok
             THEN /\ tasks' = [tasks EXCEPT ![t].at = "written"]
                  /\ raw_dir' = [raw_dir EXCEPT ![out_path(t)] =
                                    [exists |-> TRUE, text |-> <<t>>,
                                     writers |-> @.writers \cup {t}]]
             ELSE Raise(t, "write") /\ UNCHANGED raw_dir
    /\ UNCHANGED <<prog, pc, cfg_max_logs, results, log_dir, clock, log_init,
                   notPullVars>>

\* fetch_clean_write, lines 189-192: update_log writes the log or raises;
\* after it the task returns True
PullLog ==
    /\ prog = "pull"
    /\ \E t \in Tables : \E ok \in BOOLEAN :
          /\ tasks[t].at = "written"
          /\ IF ok
             THEN /\ tasks' = [tasks EXCEPT ![t] = [at |-> "returned", raised |-> "none",
                                                   ret |-> "True"]]
                  /\ log_dir' = [log_dir EXCEPT ![log_path(t)] =
                                    update_log(@, <<clock>>, cfg_max_logs, t)]
                  /\ clock' = clock + 1
             ELSE Raise(t, "log") /\ UNCHANGED <<log_dir, clock>>
    /\ UNCHANGED <<prog, pc, cfg_max_logs, results, raw_dir, log_init, notPullVars>>

\* main, lines 216-218: the next completed future; fut.result() gives the
\* value the task returned, or raises what the task raised
PullCollect ==
    /\ prog = "pull" /\ pc = "collecting"
    /\ \E t \in Tables :
          /\ tasks[t].at = "returned"
          /\ t \notin DOMAIN results
          /\ IF tasks[t].ret = "raise"
             THEN pc' = "crashed" /\ UNCHANGED results
             ELSE /\ results' = [u \in DOMAIN results \cup {t} |->
                                    IF u = t THEN tasks[t].ret = "True" ELSE results[u]]
                  /\ UNCHANGED pc
    /\ UNCHANGED <<prog, cfg_max_logs, tasks, raw_dir, log_dir, clock, log_init,
                   notPullVars>>

\* main, lines 220-226: every future has been collected
PullDone ==
    /\ prog = "pull" /\ pc = "collecting"
    /\ DOMAIN results = Tables
    /\ pc' = "done"
    /\ UNCHANGED <<prog, pullVars, notPullVars>>

NextPull ==
    \/ PullSubmit
    \/ PullStart
    \/ PullFetch
    \/ PullTransform
    \/ PullWrite
    \/ PullLog
    \/ PullCollect
    \/ PullDone

SpecPull == InitPull /\ [][NextPull]_vars

\* the log files that are tried: none, an empty one, and files of one to
\* three lines, with and without the separator at the end
LogFilesTried ==
    {NoFile} \cup
    {[exists |-> TRUE, text |-> tx, writers |-> {}] :
        tx \in {<<>>, <<NL>>, <<-1, NL>>, <<-1, NL, -2, NL>>, <<-1, NL, -2>>,
                <<-1, NL, NL, -2, NL>>, <<-1, NL, -2, NL, -3, NL>>}}

InitLog ==
    /\ prog = "update_log"
    /\ pc = "calling"
    /\ cfg_max_logs \in 1..MaxLogsTried
    /\ log_init \in LogFilesTried
    /\ log_dir = [t \in {1} |-> log_init]
    /\ clock = 1
    /\ tasks = <<>> /\ results = <<>> /\ raw_dir = <<>>
    /\ IdleMerge /\ IdleAgg /\ IdlePipe

\* one more call update_log(cfg, tab_id) for table 1
LogUpdate ==
    /\ prog = "update_log" /\ pc = "calling"
    /\ clock <= MaxCalls
    /\ log_dir' = [log_dir EXCEPT ![log_path(1)] = update_log(@, <<clock>>, cfg_max_logs, 1)]
    /\ clock' = clock + 1
    /\ UNCHANGED <<prog, pc, cfg_max_logs, tasks, results, raw_dir, log_init, notPullVars>>

NextLog == LogUpdate

SpecLog == InitLog /\ [][NextLog]_vars


(***************************************************************************)
(* The scripts together: a behaviour runs one of them.                     *)
(***************************************************************************)
Init ==
    InitMerge \/ InitAgg \/ InitExtend \/ InitLevel \/ InitRank \/ InitPipe
    \/ InitPull \/ InitLog
Next ==
    NextMerge \/ NextAgg \/ NextExtend \/ NextLevel \/ NextPipe
    \/ NextPull \/ NextLog
Spec == Init /\ [][Next]_vars

(***************************************************************************)
(* Properties                                                              *)
(***************************************************************************)
MergeDone == prog = "merge" /\ pc = "done"
AggDone == prog = "aggregate" /\ pc = "aggregated"

\* the identity key of the specification
Identity(r) == <<r.code, r.age, r.sex, r.year>>

\* the rows of the union that share the identity key of row r
SameIdentity(r) ==
    {k \in DOMAIN combined_lf : Identity(combined_lf[k].data) = Identity(r)}

\* C1: after merge.main has written the resolved table, no two of its rows
\* share the same (code, age, sex, year).
C1_IdentityUnique ==
    MergeDone =>
        \A i, j \in DOMAIN merged_out :
            i # j => Identity(merged_out[i]) # Identity(merged_out[j])

\* C2: newest wins: every resolved row carries the count of a row of the
\* smallest source_rank among all rows of the union with its identity key.
C2_NewestWins ==
    MergeDone =>
        \A i \in DOMAIN merged_out :
            \E k \in SameIdentity(merged_out[i]) :
                /\ combined_lf[k].data.count = merged_out[i].count
                /\ \A m \in SameIdentity(merged_out[i]) :
                      combined_lf[k].source_rank <= combined_lf[m].source_rank

Digits == 0..9
AgeSexYear(t) == {<<t[i].age, t[i].sex, t[i].year>> : i \in DOMAIN t}

\* the rows of df_all at a level, for one (age, sex, year), that satisfy P
LevelRows(level, asy, P(_)) ==
    {i \in DOMAIN df_all : /\ df_all[i].level = level
                           /\ <<df_all[i].age, df_all[i].sex, df_all[i].year>> = asy
                           /\ P(df_all[i].ssyk_code)}

CountOf == [i \in DOMAIN df_all |-> df_all[i].count]

\* C3: for every (age, sex, year) and every 1-character prefix p, the SSYK4
\* counts of the codes that start with p add up to the count of the SSYK1
\* row with code p (and there is exactly one such row when any SSYK4 code
\* starts with p).
C3_SumPreserved ==
    AggDone =>
        \A asy \in AgeSexYear(df_all) : \A p \in Digits :
            LET l4 == LevelRows("SSYK4", asy, LAMBDA c : Len(c) >= 1 /\ c[1] = p)
                l1 == LevelRows("SSYK1", asy, LAMBDA c : c = <<p>>)
            IN  IF l4 = {} THEN l1 = {}
                ELSE /\ Cardinality(l1) = 1
                     /\ \A i \in l1 : df_all[i].count = SumOver(l4, CountOf)

\* C3 witness: two different SSYK4 codes with prefix 1 roll up into one
\* SSYK1 row whose count is their sum.
C3_Witness ==
    /\ AggDone
    /\ \E i, j, k \in DOMAIN df_all :
          /\ df_all[i].level = "SSYK4" /\ df_all[j].level = "SSYK4"
          /\ df_all[i].ssyk_code = <<1, 1, 1, 1>>
          /\ df_all[j].ssyk_code = <<1, 1, 2, 1>>
          /\ df_all[i].sex = df_all[j].sex /\ df_all[k].sex = df_all[i].sex
          /\ df_all[k].level = "SSYK1" /\ df_all[k].ssyk_code = <<1>>
          /\ df_all[k].count = df_all[i].count + df_all[j].count
          /\ df_all[i].count = 2 /\ df_all[j].count = 1

LevelNum(level) ==
    CASE level = "SSYK4" -> 4 [] level = "SSYK3" -> 3
      [] level = "SSYK2" -> 2 [] level = "SSYK1" -> 1
LevelCol(level) ==
    CASE level = "SSYK4" -> "ssyk4" [] level = "SSYK3" -> "ssyk3"
      [] level = "SSYK2" -> "ssyk2" [] level = "SSYK1" -> "ssyk1"

\* C4: every hierarchy code at level N has exactly N characters and is the
\* first N characters of the level-4 code of every record that contributed
\* to it, the level-4 code being the full source code.
C4_ExactPrefix ==
    AggDone =>
        \A i \in DOMAIN df_all :
            LET n == LevelNum(df_all[i].level)
                c == df_all[i].ssyk_code
            IN  /\ Len(c) = n
                /\ \A j \in DOMAIN lf_levels :
                      lf_levels[j][LevelCol(df_all[i].level)] = c =>
                          /\ lf_levels[j].ssyk4 = df[j].code
                          /\ Len(lf_levels[j].ssyk4) >= n
                          /\ SubSeq(lf_levels[j].ssyk4, 1, n) = c

ExtendedOnce == prog = "extend" /\ pc \in {"once", "twice"}

\* C7: extending an already extended table with the same reference gives
\* exactly the extended table: the second application adds no rows.
C7_ExtendIdempotent ==
    (prog = "extend" /\ pc = "twice") => ext_twice = ext_once

\* C7 witness: the first application added rows, the second none.
C7_Witness ==
    /\ prog = "extend" /\ pc = "twice"
    /\ Len(ext_once.rows) > Len(daioe_lf.rows)
    /\ Len(ext_twice.rows) = Len(ext_once.rows)

\* the number of rows of t, among the indices in I, that equal r
Copies(t, I, r) == Cardinality({k \in I : t[k] = r})

\* C8: without a gap the table is returned unchanged; otherwise the result
\* is the table followed by exactly one copy, for each missing year, of each
\* row of the last year, with only the year replaced, in the column order of
\* the table.
C8_ExtendAppendsOnly ==
    ExtendedOnce =>
        LET A == daioe_lf.rows
            R == ext_once.rows
            amax == MaxYear(A)
            bmax == MaxYear(scb_lv4)
            last == {i \in DOMAIN A : A[i].year = amax}
            added == (Len(A) + 1)..Len(R)
        IN  IF bmax <= amax THEN ext_once = daioe_lf
            ELSE /\ ext_once.cols = daioe_lf.cols
                 /\ Len(R) = Len(A) + (bmax - amax) * Cardinality(last)
                 /\ SubSeq(R, 1, Len(A)) = A
                 /\ \A k \in added : R[k].year \in (amax + 1)..bmax
                 /\ \A y \in (amax + 1)..bmax : \A i \in last :
                       Copies(R, added, [A[i] EXCEPT !.year = y])
                           = Copies(A, DOMAIN A, A[i])

\* C8 witness: a gap of two years, and a table that has rows before its
\* last year.
C8_Witness ==
    /\ ExtendedOnce
    /\ MaxYear(scb_lv4) = MaxYear(daioe_lf.rows) + 2
    /\ \E i \in DOMAIN daioe_lf.rows :
          daioe_lf.rows[i].year < MaxYear(daioe_lf.rows)
    /\ Len(ext_once.rows) > Len(daioe_lf.rows)

LevelsBuilt == prog = "levels" /\ pc = "built"

PctlCols == {"pctl_daioe_allapps_avg", "pctl_daioe_allapps_wavg"}

\* the rows of the output that share the (year, level) of row i
SamePartition(i) ==
    {j \in DOMAIN daioe_all_levels :
        /\ daioe_all_levels[j].year = daioe_all_levels[i].year
        /\ daioe_all_levels[j].level = daioe_all_levels[i].level}

\* C5: every percentile that is written is a number of [0, pct_scale], and
\* it is 0 in a (year, level) partition of one member.
C5_PercentileRange ==
    LevelsBuilt =>
        \A i \in DOMAIN daioe_all_levels : \A col \in PctlCols :
            LET v == daioe_all_levels[i][col]
            IN  /\ v # Null =>
                      /\ v[2] > 0
                      /\ 0 <= v[1]
                      /\ v[1] <= pct_scale * v[2]
                /\ Cardinality(SamePartition(i)) = 1 =>
                      v # Null /\ v[2] > 0 /\ v[1] = 0

\* C5 witness: a partition of one member, and a partition of several whose
\* largest member is at pct_scale.
C5_Witness ==
    /\ LevelsBuilt
    /\ \E i, j \in DOMAIN daioe_all_levels :
          /\ Cardinality(SamePartition(i)) = 1
          /\ daioe_all_levels[i].pctl_daioe_allapps_wavg = <<0, 1>>
          /\ Cardinality(SamePartition(j)) > 1
          /\ daioe_all_levels[j].pctl_daioe_allapps_wavg # Null
          /\ daioe_all_levels[j].pctl_daioe_allapps_wavg[1]
                 = pct_scale * daioe_all_levels[j].pctl_daioe_allapps_wavg[2]

\* twice the average rank of row i in its partition by column col: the rows
\* before it occupy the positions 1..less, its ties less+1..less+ties
TwiceAverageRank(i, col) ==
    LET v == daioe_all_levels[i][col]
        present == {j \in SamePartition(i) : daioe_all_levels[j][col] # Null}
        less == Cardinality({j \in present :
                    IF descending THEN FLess(v, daioe_all_levels[j][col])
                    ELSE FLess(daioe_all_levels[j][col], v)})
        ties == Cardinality({j \in present : FEq(daioe_all_levels[j][col], v)})
    IN  2 * less + ties + 1

\* C6: within each (year, level) partition of n > 1 rows the percentile of a
\* value is (rank - 1) / (n - 1) * pct_scale, rank being the mean of the
\* positions its ties occupy, so tied values get the same percentile.
C6_AverageRank ==
    LevelsBuilt =>
        \A i \in DOMAIN daioe_all_levels :
            \A col \in {"daioe_allapps_avg", "daioe_allapps_wavg"} :
                LET n == Cardinality(SamePartition(i))
                    p == daioe_all_levels[i][IF col = "daioe_allapps_avg"
                                             THEN "pctl_daioe_allapps_avg"
                                             ELSE "pctl_daioe_allapps_wavg"]
                IN  (n > 1 /\ daioe_all_levels[i][col] # Null) =>
                        /\ p # Null /\ p[2] > 0
                        /\ p[1] * (2 * (n - 1))
                               = (TwiceAverageRank(i, col) - 2) * pct_scale * p[2]

\* C6 witness: the ascending values 10, 20, 20, 30 of one partition get the
\* percentiles 0, 50, 50 and 100.
C6_Witness ==
    /\ LevelsBuilt /\ ~descending
    /\ \E a, b, c, d \in DOMAIN daioe_all_levels :
          /\ {b, c, d} \subseteq SamePartition(a)
          /\ Cardinality({a, b, c, d}) = 4
          /\ Cardinality(SamePartition(a)) = 4
          /\ FEq(daioe_all_levels[a].daioe_allapps_avg, <<10, 1>>)
          /\ FEq(daioe_all_levels[b].daioe_allapps_avg, <<20, 1>>)
          /\ FEq(daioe_all_levels[c].daioe_allapps_avg, <<20, 1>>)
          /\ FEq(daioe_all_levels[d].daioe_allapps_avg, <<30, 1>>)
          /\ FEq(daioe_all_levels[a].pctl_daioe_allapps_avg, <<0, 1>>)
          /\ FEq(daioe_all_levels[b].pctl_daioe_allapps_avg, <<pct_scale, 2>>)
          /\ FEq(daioe_all_levels[c].pctl_daioe_allapps_avg, <<pct_scale, 2>>)
          /\ FEq(daioe_all_levels[d].pctl_daioe_allapps_avg, <<pct_scale, 1>>)

\* the sum of f[1], ..., f[n]
RECURSIVE SeqSum(_, _)
SeqSum(f, n) == IF n = 0 THEN 0 ELSE f[n] + SeqSum(f, n - 1)

\* the code of a joined row at a level
CodeAt(r, level) ==
    CASE level = "SSYK4" -> r.code_4 [] level = "SSYK3" -> r.code_3
      [] level = "SSYK2" -> r.code_2 [] level = "SSYK1" -> r.code_1

\* row j of the joined table belongs to the group of output row o
InGroup(j, o) ==
    /\ daioe_scb[j].year = o.year
    /\ CodeAt(daioe_scb[j], o.level) = o.ssyk_code

\* C10: weight_sum is the sum of the weights of the group's rows, the _avg
\* column the mean of the metric over the group's rows, and the _wavg column
\* the sum of metric * weight divided by weight_sum (missing values are
\* skipped by the sums; 0/0 is NaN).
C10_GroupAggregates ==
    LevelsBuilt =>
        \A i \in DOMAIN daioe_all_levels :
            LET o == daioe_all_levels[i]
                n == Len(daioe_scb)
                w == [j \in 1..n |->
                         IF InGroup(j, o) /\ daioe_scb[j].total_count # Null
                         THEN daioe_scb[j].total_count[1] ELSE 0]
                m == [j \in 1..n |->
                         IF InGroup(j, o) /\ daioe_scb[j].daioe_allapps # Null
                         THEN daioe_scb[j].daioe_allapps[1] ELSE 0]
                cnt == [j \in 1..n |->
                         IF InGroup(j, o) /\ daioe_scb[j].daioe_allapps # Null
                         THEN 1 ELSE 0]
                mw == [j \in 1..n |-> IF InGroup(j, o) /\ daioe_scb[j].total_count # Null
                                      THEN m[j] * w[j] ELSE 0]
            IN  /\ o.weight_sum = SeqSum(w, n)
                /\ IF SeqSum(cnt, n) = 0 THEN o.daioe_allapps_avg = Null
                   ELSE /\ o.daioe_allapps_avg # Null
                        /\ o.daioe_allapps_avg[2] > 0
                        /\ o.daioe_allapps_avg[1] * SeqSum(cnt, n)
                               = SeqSum(m, n) * o.daioe_allapps_avg[2]
                /\ o.daioe_allapps_wavg # Null
                /\ IF SeqSum(w, n) = 0 THEN IsNaN(o.daioe_allapps_wavg)
                   ELSE /\ o.daioe_allapps_wavg[2] # 0
                        /\ o.daioe_allapps_wavg[1] * SeqSum(w, n)
                               = SeqSum(mw, n) * o.daioe_allapps_wavg[2]

\* C10 witness: a group of two rows with the weights 1 and 3 and the metrics
\* 30 and 10: weight_sum 4, mean 20, weighted mean 15.
C10_Witness ==
    /\ LevelsBuilt
    /\ \E i \in DOMAIN daioe_all_levels :
          /\ daioe_all_levels[i].level = "SSYK1"
          /\ daioe_all_levels[i].weight_sum = 4
          /\ daioe_all_levels[i].daioe_allapps_avg # Null
          /\ FEq(daioe_all_levels[i].daioe_allapps_avg, <<20, 1>>)
          /\ FEq(daioe_all_levels[i].daioe_allapps_wavg, <<15, 1>>)

Joined == prog = "pipeline" /\ pc = "joined"

CountMatches(r) ==
    {k \in DOMAIN scb_lv4 :
        scb_lv4[k].year = r.year /\ scb_lv4[k].ssyk_code = r.code_4}

C11_ShortCodesRejected ==
    (prog = "aggregate" /\ in_exists /\ map_exists
     /\ \E i \in DOMAIN in_file : Len(in_file[i].code) < 4)
        => /\ pc \in {"start", "ValueError"}
           /\ lf_levels = <<>> /\ df_all = <<>>

\* the positions at which a run of aggregate.main ends
AggErrors == {"FileNotFoundError: in_file", "FileNotFoundError: map_file", "ValueError"}

\* the guards of the steps of aggregate.main: the run can go on
AggCanStep ==
    \/ pc \in {"start", "loaded", "levels", "name_map", "joined", "diagnosed"}
    \/ pc = "aggregated" /\ map_exists

\* nothing has been loaded or aggregated
NothingAggregated ==
    df = <<>> /\ lf_levels = <<>> /\ df_all = <<>> /\ df_name_maps = <<>>
    /\ df_join = <<>> /\ diag = Null

\* C12: a run of aggregate.main ends either after write_output, with the
\* joined table written, or with an error before anything is written.  A
\* missing input file, a missing mapping file and a missing required column
\* raise FileNotFoundError (naming the file) or ValueError before any
\* aggregation, and the output file keeps its previous content.
C12_WriteOrAbort ==
    prog = "aggregate" =>
        /\ ~AggCanStep => pc \in AggErrors \cup {"done"}
        /\ pc = "done" => out_file = df_join
        /\ pc # "done" => out_file = OldOutput
        /\ pc \in AggErrors => NothingAggregated
        /\ ~in_exists => pc \in {"start", "FileNotFoundError: in_file"}
        /\ (in_exists /\ ~map_exists) => pc \in {"start", "FileNotFoundError: map_file"}
        /\ (in_exists /\ map_exists /\ AGG_REQUIRED_COLS \ in_cols # {})
               => pc \in {"start", "ValueError"}

\* C12 witness: the mapping file is missing next to an input table that has
\* rows; the run has stopped and the output file is the old one.
C12_Witness ==
    /\ prog = "aggregate" /\ pc = "FileNotFoundError: map_file"
    /\ in_file # <<>> /\ out_file = OldOutput

AggDiagnosed == prog = "aggregate" /\ pc \in {"diagnosed", "done"}

\* the rows of the mapping file that name code c
NamingRows(c) == {k \in DOMAIN map_file : StripChars(map_file[k].code) = c}

\* row j of df_join without its occupation
BaseOf(j) ==
    [level |-> df_join[j].level, ssyk_code |-> df_join[j].ssyk_code,
     age |-> df_join[j].age, sex |-> df_join[j].sex, year |-> df_join[j].year,
     count |-> df_join[j].count]

\* the rows of df_join without an occupation
UnmappedRows == {j \in DOMAIN df_join : df_join[j].occupation = Null}

\* C16: an unmapped code is not fatal.  Every hierarchy row is in the mapped
\* table exactly once, whatever the mapping file lists; a row whose code the
\* mapping file does not name has a null occupation, a named one has the
\* name of the first row that lists its code; unmapped_rows is the number
\* of rows without occupation, and the list of unmapped codes holds their
\* (level, code) pairs, each once, sorted.
C16_UnmappedNonFatal ==
    AggDiagnosed =>
        /\ Len(df_join) = Len(df_all)
        /\ \A i \in DOMAIN df_all :
              Cardinality({j \in DOMAIN df_join : BaseOf(j) = df_all[i]}) = 1
        /\ \A j \in DOMAIN df_join :
              LET ks == NamingRows(df_join[j].ssyk_code)
              IN  IF ks = {} THEN df_join[j].occupation = Null
                  ELSE df_join[j].occupation = map_file[Min(ks)].name
        /\ diag.unmapped_rows = Cardinality(UnmappedRows)
        /\ {diag.unmapped[k] : k \in DOMAIN diag.unmapped}
              = {[level |-> df_join[j].level, ssyk_code |-> df_join[j].ssyk_code] :
                     j \in UnmappedRows}
        /\ \A k \in 1..(Len(diag.unmapped) - 1) :
              LET a == diag.unmapped[k]
                  b == diag.unmapped[k + 1]
              IN  \/ LevelOrd(a.level) < LevelOrd(b.level)
                  \/ a.level = b.level /\ CodeLess(a.ssyk_code, b.ssyk_code)

\* C16 witness: the mapping file lists one code twice, a row got a name,
\* and two rows without a name share one (level, code) pair.
C16_Witness ==
    /\ prog = "aggregate" /\ pc = "done"
    /\ \E k, l \in DOMAIN map_file :
          k # l /\ StripChars(map_file[k].code) = StripChars(map_file[l].code)
    /\ \E j \in DOMAIN df_join : df_join[j].occupation # Null
    /\ Len(diag.unmapped) < diag.unmapped_rows

MergeCounted == prog = "merge" /\ pc \in {"stats", "resolved", "done"}

\* the rows of the union whose identity key is shared by another row
KeyDupRows ==
    {i \in DOMAIN combined_lf : Cardinality(SameIdentity(combined_lf[i].data)) > 1}

\* the rows of the union whose identity key comes with more than one count
KeyConflictRows ==
    {i \in DOMAIN combined_lf :
        Cardinality({combined_lf[k].data.count :
                        k \in SameIdentity(combined_lf[i].data)}) > 1}

\* C13: over the union grouped by the identity key (code, age, sex, year),
\* the resolver reports (a) the rows in groups of more than one row, (b) the
\* groups of more than one row, (c) the groups whose counts disagree, so that
\* one identity with the counts 10 and 15 is 1 conflicting identity; and a
\* run with conflicts still writes the resolved table.
C13_MergeDiagnostics ==
    /\ MergeCounted =>
          /\ merge_stats.dup_rows = Cardinality(KeyDupRows)
          /\ merge_stats.dup_groups
                = Cardinality({Identity(combined_lf[i].data) : i \in KeyDupRows})
          /\ merge_stats.conflict_groups
                = Cardinality({Identity(combined_lf[i].data) : i \in KeyConflictRows})
    /\ (MergeDone /\ combined_lf # <<>>) => merged_out # <<>>

\* the identity of a row for merge.py: its values in the columns get_id_cols picks
IdTuple(r) == [c \in Range(get_id_cols(first_cols)) |-> r[c]]

\* C20: the resolver loses no identity.  The identity tuples (the values in
\* the identity columns that merge.py picks) of the resolved table are those
\* of the union, each once; the resolved table has combined_rows - dup_rows
\* + dup_groups rows; and conflict_groups <= dup_groups <= dup_rows / 2.
C20_NoIdentityLost ==
    MergeDone =>
        /\ {IdTuple(merged_out[i]) : i \in DOMAIN merged_out}
              = {IdTuple(combined_lf[k].data) : k \in DOMAIN combined_lf}
        /\ \A i, j \in DOMAIN merged_out :
              i # j => IdTuple(merged_out[i]) # IdTuple(merged_out[j])
        /\ Len(merged_out) = merge_stats.combined_rows - merge_stats.dup_rows
                                + merge_stats.dup_groups
        /\ merge_stats.conflict_groups <= merge_stats.dup_groups
        /\ 2 * merge_stats.dup_groups <= merge_stats.dup_rows

\* C20 witness: a union of three rows with one duplicated, conflicting
\* identity resolves to two rows.
C20_Witness ==
    /\ MergeDone
    /\ merge_stats.combined_rows = 3 /\ merge_stats.dup_rows = 2
    /\ merge_stats.conflict_groups = 1
    /\ Len(merged_out) = 2

\* C14: in a run of main.main, building the graph materializes nothing, and
\* the graph is evaluated exactly once, by the terminal operation.
C14_CollectOnce ==
    prog = "pipeline" =>
        /\ pc # "done" => collects = <<>>
        /\ pc = "done" => collects = <<"sink_parquet">>

\* C15: in pull.main a failing fetch neither aborts main nor keeps a sibling
\* from running to its end; results holds, for the tables collected so far
\* and for every table once main is done, one boolean that is True exactly
\* when fetch, transform, write and log update of the table all succeeded;
\* and a file of the output and log directories is written by its own task
\* only.
C15_FetchIsolation ==
    prog = "pull" =>
        /\ pc # "crashed"
        /\ DOMAIN results \subseteq Tables
        /\ \A t \in DOMAIN results :
              /\ tasks[t].at = "returned"
              /\ results[t] \in BOOLEAN
              /\ results[t] = (tasks[t].raised = "none")
        /\ pc = "done" => DOMAIN results = Tables
        /\ (\A t \in Tables : tasks[t].at = "returned" /\ t \in DOMAIN results)
              => pc \in {"collecting", "done"}
        /\ \A t \in Tables :
              /\ raw_dir[t].writers \subseteq {u \in Tables : out_path(u) = t}
              /\ log_dir[t].writers \subseteq {u \in Tables : log_path(u) = t}
              /\ Cardinality(raw_dir[t].writers) <= 1
              /\ Cardinality(log_dir[t].writers) <= 1
              /\ (tasks[t].raised = "none" /\ tasks[t].at = "returned")
                    => raw_dir[out_path(t)].exists /\ log_dir[log_path(t)].exists

\* C15 witness: main is done; the fetch of one table failed, a sibling that
\* started after the failure succeeded and wrote its two files.
C15_Witness ==
    /\ prog = "pull" /\ pc = "done"
    /\ \E t, u \in Tables :
          /\ tasks[t].raised = "fetch" /\ results[t] = FALSE
          /\ results[u] = TRUE
          /\ raw_dir[out_path(u)].writers = {u}
          /\ log_dir[log_path(u)].writers = {u}
          /\ raw_dir[out_path(t)].writers = {}

\* the log file of table 1 and its lines
LogFile == log_dir[log_path(1)]
LogLines == SplitLines(LogFile.text)

\* the lines of the log file before the first call
OldLines == IF log_init.exists THEN SplitLines(log_init.text) ELSE <<>>

\* the entries of the calls made so far, the latest first, then the old lines
CallsThenOld == [i \in 1..(clock - 1) |-> <<clock - i>>] \o OldLines

\* C19: after any number of update_log calls for one table, from an absent
\* or an existing log file, the file holds at most cfg.max_logs entries,
\* newest first: the first line is the entry of the latest call, the lines
\* are the most recent entries in reverse call order (then the newest of the
\* old lines), and only the oldest are dropped.
C19_LogNewestFirst ==
    (prog = "update_log" /\ clock > 1) =>
        /\ LogFile.exists
        /\ Len(LogLines) <= cfg_max_logs
        /\ LogLines[1] = <<clock - 1>>
        /\ LogLines = Take(CallsThenOld, cfg_max_logs)
        /\ LogFile.text[Len(LogFile.text)] = NL

\* C19 witness: three calls on a file of two lines with max_logs = 2: the
\* file holds the entries of the last two calls.
C19_Witness ==
    /\ prog = "update_log" /\ clock = 4 /\ cfg_max_logs = 2
    /\ Len(OldLines) = 2
    /\ LogLines = <<(<<3>>), (<<2>>)>>

\* C17: missing exposure stays null.  For every group of the joined table
\* whose values of the metric are all missing, the _avg and the _wavg column
\* and the two percentile columns of the group are null, whatever the size
\* of its (year, level) partition.
C17_NullPropagated ==
    LevelsBuilt =>
        \A i \in DOMAIN daioe_all_levels :
            LET o == daioe_all_levels[i]
            IN  (\A j \in DOMAIN daioe_scb :
                    InGroup(j, o) => daioe_scb[j].daioe_allapps = Null)
                => /\ o.daioe_allapps_avg = Null
                   /\ o.daioe_allapps_wavg = Null
                   /\ o.pctl_daioe_allapps_avg = Null
                   /\ o.pctl_daioe_allapps_wavg = Null

PipeBuilt == prog = "pipeline" /\ pc \in {"built", "inspected", "done"}

\* the four columns derived from the metric daioe_allapps
DerivedCols ==
    {"daioe_allapps_avg", "daioe_allapps_wavg",
     "pctl_daioe_allapps_avg", "pctl_daioe_allapps_wavg"}

\* C18: every row of the table that build_pipeline returns has the fields
\* level, ssyk_code, age, sex, year and weight_sum and, for the metric, the
\* four derived fields.
C18_OutputSchema ==
    PipeBuilt =>
        \A i \in DOMAIN daioe_all_levels :
            /\ {"level", "ssyk_code", "age", "sex", "year", "weight_sum"}
                  \subseteq DOMAIN daioe_all_levels[i]
            /\ DerivedCols \subseteq DOMAIN daioe_all_levels[i]

\* C18 as amended: every row of the table that build_pipeline returns has
\* exactly the fields level, ssyk_code, year and weight_sum and, for the
\* metric, the four derived fields _avg, _wavg, pctl_.._avg and pctl_.._wavg;
\* it has no age and no sex field.
C18_SchemaWithoutAgeSex ==
    PipeBuilt =>
        \A i \in DOMAIN daioe_all_levels :
            DOMAIN daioe_all_levels[i]
                = {"level", "ssyk_code", "year", "weight_sum"} \cup DerivedCols

\* C18 witness: the pipeline has built a table with rows at all four levels.
C18_Witness ==
    /\ PipeBuilt
    /\ \A l \in {"SSYK1", "SSYK2", "SSYK3", "SSYK4"} :
          \E i \in DOMAIN daioe_all_levels : daioe_all_levels[i].level = l

\* the rows of daioe_all_levels at a level and a year whose code satisfies P
BuiltRows(level, year, P(_)) ==
    {i \in DOMAIN daioe_all_levels : /\ daioe_all_levels[i].level = level
                                     /\ daioe_all_levels[i].year = year
                                     /\ P(daioe_all_levels[i].ssyk_code)}

WeightSumOf == [i \in DOMAIN daioe_all_levels |-> daioe_all_levels[i].weight_sum]

\* c is a left prefix of code
StartsWith(code, c) == Len(c) <= Len(code) /\ SubSeq(code, 1, Len(c)) = c

\* C21: weights roll up across the levels: the weight_sum of every row at a
\* level above SSYK4 is the sum of weight_sum over the SSYK4 rows of the same
\* year whose code starts with the row's code, and in every year the total
\* of weight_sum is the same at all four levels.
C21_WeightsRollUp ==
    LevelsBuilt =>
        /\ \A i \in DOMAIN daioe_all_levels :
              LET o == daioe_all_levels[i]
              IN  o.level # "SSYK4" =>
                      o.weight_sum
                          = SumOver(BuiltRows("SSYK4", o.year,
                                              LAMBDA c : StartsWith(c, o.ssyk_code)),
                                    WeightSumOf)
        /\ \A i \in DOMAIN daioe_all_levels :
              \A l \in {"SSYK1", "SSYK2", "SSYK3"} :
                  SumOver(BuiltRows(l, daioe_all_levels[i].year, LAMBDA c : TRUE),
                          WeightSumOf)
                      = SumOver(BuiltRows("SSYK4", daioe_all_levels[i].year,
                                          LAMBDA c : TRUE),
                                WeightSumOf)

\* C21 witness: in one year the SSYK4 rows 1111 (weight 1), 1121 (weight 3)
\* and 2111 (weight 3) roll up into the SSYK1 rows 1 (weight 4) and 2
\* (weight 3).
C21_Witness ==
    /\ LevelsBuilt
    /\ \E i, j, k, a, b \in DOMAIN daioe_all_levels :
          /\ daioe_all_levels[i].level = "SSYK4"
          /\ daioe_all_levels[i].ssyk_code = <<1, 1, 1, 1>>
          /\ daioe_all_levels[i].weight_sum = 1
          /\ daioe_all_levels[j].level = "SSYK4"
          /\ daioe_all_levels[j].ssyk_code = <<1, 1, 2, 1>>
          /\ daioe_all_levels[j].weight_sum = 3
          /\ daioe_all_levels[k].level = "SSYK4"
          /\ daioe_all_levels[k].ssyk_code = <<2, 1, 1, 1>>
          /\ daioe_all_levels[k].weight_sum = 3
          /\ daioe_all_levels[a].level = "SSYK1"
          /\ daioe_all_levels[a].ssyk_code = <<1>>
          /\ daioe_all_levels[a].weight_sum = 4
          /\ daioe_all_levels[b].level = "SSYK1"
          /\ daioe_all_levels[b].ssyk_code = <<2>>
          /\ daioe_all_levels[b].weight_sum = 3
          /\ \A x \in {i, j, k, a, b} : daioe_all_levels[x].year = 2020

\* C22: in every group whose weight_sum is positive (the weights of the model
\* are never negative) and that has at least one metric value, the _wavg
\* column lies between the smallest and the largest metric value that is
\* present among the group's rows.
C22_WavgWithinRange ==
    LevelsBuilt =>
        \A i \in DOMAIN daioe_all_levels :
            LET o == daioe_all_levels[i]
                present == {daioe_scb[j].daioe_allapps[1] :
                               j \in {k \in DOMAIN daioe_scb :
                                         /\ InGroup(k, o)
                                         /\ daioe_scb[k].daioe_allapps # Null}}
            IN  (o.weight_sum > 0 /\ present # {}) =>
                    /\ o.daioe_allapps_wavg # Null
                    /\ o.daioe_allapps_wavg[2] > 0
                    /\ Min(present) * o.daioe_allapps_wavg[2]
                           <= o.daioe_allapps_wavg[1]
                    /\ o.daioe_allapps_wavg[1]
                           <= Max(present) * o.daioe_allapps_wavg[2]

=============================================================================
